---- MODULE Spec2Model ----
(***************************************************************************)
(* A model of the polling and track-state reconciliation engine of         *)
(* vscode-music: LinuxMusicService and WindowsMusicService                 *)
(* (src/src/linux/musicService.ts, src/src/windows/musicService.ts).       *)
(*                                                                         *)
(* Spec      the service: availability check, the polling timer, the poll  *)
(*           ticks (which the timer may start while earlier ones are still *)
(*           awaiting the helper or a download), artwork resolution, the   *)
(*           subscriber and dispose.                                       *)
(* PureSpec  hasTrackChanged applied to every pair of records of a bounded *)
(*           domain.                                                       *)
(* ArtSpec   the artwork resolvers behind getArtworkUri:                   *)
(*           WindowsMusicController.downloadArtwork (src/src/windows/      *)
(*           index.ts) and ArtworkUtil (src/src/windows/utils/             *)
(*           artworkUtil.ts), with the artwork directory on disk.          *)
(* CmdSpec   the position query, getCurrentTrack and the three controls    *)
(*           called by a client, with the helper's exit code, stderr and   *)
(*           spawn errors, and what the webview provider's message handler *)
(*           (src/src/common/ui/musicWebviewProvider.ts) does when a       *)
(*           control it awaits has settled.                                *)
(* CtlSpec   WindowsMusicController (src/src/windows/index.ts) with the    *)
(*           WindowsMusicService it owns, and the controller's dispose.    *)
(* ParseSpec what getCurrentTrack of each service makes of the helper's    *)
(*           exit code and output, with the string operations it uses      *)
(*           (trim, split, parseInt, toLowerCase, includes) spelled out on *)
(*           sequences of characters.                                      *)
(* RunSpec   the service polling a player that plays on: samples that      *)
(*           differ in position only, one second apart.                    *)
(* InitSpec  the service whose public initialize() is called again, with   *)
(*           the availability checks completing in any order, and dispose. *)
(***************************************************************************)
EXTENDS Integers, Sequences, FiniteSets, TLC

VARIABLES
    backend,          \* "linux" (LinuxMusicService) or "windows" (WindowsMusicService)
    initPc,           \* initialize(): "checking" while the availability check is pending
    isAvailable,      \* isPlayerctlAvailable / isWinKlangAvailable
    updateInterval,   \* this.updateInterval: 0 for null, else the timer's handle
    activeTimers,     \* handles of the intervals that are set and not cleared
    nextTimer,        \* next handle setInterval returns
    currentTrack,     \* this.currentTrack (lastKnown)
    currentRef,       \* the slot of the tick in flight whose record currentTrack refers to, else 0
    artworkCache,     \* this.artworkCache: locator -> resolved URI (Null when absent)
    callbackSet,      \* whether onTrackChangedCallback is defined
    ticks,            \* the poll ticks in flight: slot -> the frame of the tick in it
    last,             \* history: the frame of the tick that ended last, and its calls of the subscriber
    now,              \* Date.now(), in milliseconds since the service was made
    transfers,        \* history: locator -> copies and downloads completed
    returned,         \* history: locator -> URIs downloadArtwork has returned since the cache was last cleared
    disposed,         \* history: dispose() has been called
    probe,            \* PureSpec: the last application of a pure function
    resolver,         \* ArtSpec: "controller" (WindowsMusicController) or "util" (ArtworkUtil)
    resolverCache,    \* ArtSpec: the resolver's artworkCache: locator -> what it returns (NoPath when absent)
    disk,             \* ArtSpec: the artwork directory: file name -> the file's state and whose bytes it holds
    resolves,         \* ArtSpec: the calls of downloadArtwork in flight: slot -> frame
    lastResolve,      \* ArtSpec, history: the frame of the call that returned last
    failed,           \* ArtSpec, history: the locators whose latest download that ended, failed
    checkOutcome,     \* history: what the availability check met ("pending" until it completes)
    controllerDisposed,  \* history: WindowsMusicController.dispose() has been called
    cmds,             \* CmdSpec: the calls of the service's queries and controls in flight: slot -> frame
    cmdResult         \* CmdSpec, history: the frame of the call that settled last

vars == <<backend, initPc, isAvailable, updateInterval, activeTimers, nextTimer,
          currentTrack, currentRef, artworkCache, callbackSet, ticks, last, now,
          transfers, returned, disposed, probe,
          resolver, resolverCache, disk, resolves, lastResolve, failed,
          checkOutcome, controllerDisposed, cmds, cmdResult>>

cmdVars == <<cmds, cmdResult>>

artVars == <<resolver, resolverCache, disk, resolves, lastResolve, failed>>

(***************************************************************************)
(* Bounds                                                                  *)
(***************************************************************************)
\* Poll ticks that have started and not ended, at any one time.
MaxInFlight == 2
\* Largest value of Date.now().
MaxNow == 1
\* Largest position, in seconds, of the records of PureSpec.
MaxPos == 3
\* Calls of a resolver's downloadArtwork that have not returned, at any one time.
MaxResolves == 2
\* Calls of the service's queries and controls that have not settled, at any one time.
MaxCommands == 1
\* RunSpec: the last position of the run of samples.
MaxRun == 7
\* InitSpec: how many times initialize() is called again after construction.
MaxInitialize == 3

(***************************************************************************)
(* Values                                                                  *)
(***************************************************************************)
\* parseInt's NaN; an optional position that is undefined behaves the same
\* under (x || 0).
NaN == -1000000

\* A locator or a resolved URI: the text is pre \o dir \o "/" \o base.
Str(pre, dir, base) == [pre |-> pre, dir |-> dir, base |-> base]

EmptyStr == Str("", "", "")
\* The null a failed resolution returns.
Null == Str("null", "", "")

LocHttp == Str("http://", "host/img", "a.jpg")
LocFile == Str("file://", "/music", "cover.jpg")
LocFtp == Str("ftp://", "host", "b.jpg")

Locators == {LocHttp, LocFile, LocFtp}

\* The null of `TrackInfo | null`.
None == [kind |-> "none"]

Track(title, artUrl, artist, album, position, duration, status, player) ==
    [kind |-> "track", title |-> title, artUrl |-> artUrl, artist |-> artist,
     album |-> album, position |-> position, duration |-> duration,
     status |-> status, player |-> player]

\* JavaScript's (x || 0) on a number.
OrZero(x) == IF x = NaN THEN 0 ELSE x

Abs(x) == IF x < 0 THEN -x ELSE x

(***************************************************************************)
(* hasTrackChanged                                                         *)
(***************************************************************************)
\* A slip of the threshold: a drift of exactly 2 seconds counts as a change.
LinuxHasTrackChanged_AtLeast2(cur, newTrack) ==
    IF cur = None /\ newTrack = None THEN FALSE
    ELSE IF cur = None \/ newTrack = None THEN TRUE
    ELSE \/ cur.title # newTrack.title
         \/ cur.artist # newTrack.artist
         \/ cur.status # newTrack.status
         \/ Abs(OrZero(cur.position) - OrZero(newTrack.position)) >= 2

LinuxHasTrackChanged(cur, newTrack) ==
    IF cur = None /\ newTrack = None THEN FALSE
    ELSE IF cur = None \/ newTrack = None THEN TRUE
    ELSE \/ cur.title # newTrack.title
         \/ cur.artist # newTrack.artist
         \/ cur.status # newTrack.status
         \/ Abs(OrZero(cur.position) - OrZero(newTrack.position)) > 2

\* A slip of the null tests: the second one is taken for "both are null".
WindowsHasTrackChanged_NullUnchanged(cur, newTrack) ==
    IF cur = None \/ newTrack = None THEN FALSE
    ELSE \/ cur.title # newTrack.title
         \/ cur.artist # newTrack.artist
         \/ cur.status # newTrack.status
         \/ Abs(OrZero(cur.position) - OrZero(newTrack.position)) > 2

WindowsHasTrackChanged(cur, newTrack) ==
    IF cur = None /\ newTrack = None THEN FALSE
    ELSE IF cur = None \/ newTrack = None THEN TRUE
    ELSE \/ cur.title # newTrack.title
         \/ cur.artist # newTrack.artist
         \/ cur.status # newTrack.status
         \/ Abs(OrZero(cur.position) - OrZero(newTrack.position)) > 2

\* The same slip in both services.
HasTrackChanged_AtLeast2(b, cur, newTrack) ==
    LinuxHasTrackChanged_AtLeast2(cur, newTrack)

HasTrackChanged(b, cur, newTrack) ==
    IF b = "linux" THEN LinuxHasTrackChanged(cur, newTrack)
    ELSE WindowsHasTrackChanged(cur, newTrack)

(***************************************************************************)
(* The samples getCurrentTrack yields in Spec                              *)
(***************************************************************************)
SA0 == Track("A", LocHttp, "X", "Al", 0, 200, "playing", "P")
SA3 == Track("A", LocHttp, "X", "Al", 3, 200, "playing", "P")
SB == Track("B", LocFile, "X", "Al", 0, 200, "playing", "P")
\* Against SA0 and SA3 only album, artwork and (by at most 2) position differ.
SC == Track("A", LocFtp, "X", "Al2", 1, 200, "playing", "P")
SD == Track("B", EmptyStr, "X", "Al", NaN, 200, "paused", "P")

Samples == {SA0, SA3, SB, SC, SD}

(***************************************************************************)
(* Poll ticks                                                              *)
(***************************************************************************)
\* The frame of one run of the interval callback:
\*   pc       "idle" (the slot is free), "sampling" (awaiting getCurrentTrack),
\*            "downloading" (awaiting downloadFile), "hung" (awaiting a
\*            downloadFile that no event will settle), "done" (in `last`)
\*   sample   what getCurrentTrack resolved to, as it was then
\*   track    the same object, as the tick has rewritten it
\*   changed  what hasTrackChanged returned
\*   how      what downloadArtwork did: "none" (not called), "empty", "hit",
\*            "copied", "downloaded", "failed" or, while it runs, "pending"
\*   target   the URI a pending download will cache and return
\*   prior    the URIs downloadArtwork had returned for the locator, since the
\*            cache was last cleared, when this tick called it
\*   cb       whether a subscriber was registered when the tick reached line 70
\*   calls    the calls of the subscriber the tick made, in order
IdleFrame ==
    [pc |-> "idle", sample |-> None, track |-> None, changed |-> FALSE,
     how |-> "none", target |-> Null, prior |-> {}, cb |-> FALSE,
     calls |-> <<>>]

Slots == 1..MaxInFlight

InFlight == {i \in Slots : ticks[i].pc # "idle"}

\* The artUrl a frame's sample carried.
Orig(f) == IF f.sample = None THEN EmptyStr ELSE f.sample.artUrl

\* The test of the locator is forgotten.
NeedsArtwork_AnyTrack(track) == track # None

\* if (track && track.artUrl)
NeedsArtwork(track) == track # None /\ track.artUrl # EmptyStr

\* The test of the result is forgotten: a failed resolution's null is assigned.
RewriteArt_Always(track, artworkPath) == [track EXCEPT !.artUrl = artworkPath]

\* if (artworkPath) { track.artUrl = artworkPath; }
RewriteArt(track, artworkPath) ==
    IF artworkPath # Null THEN [track EXCEPT !.artUrl = artworkPath] ELSE track

\* artworkUrl.startsWith('file://')
StartsWithFile(url) == url.pre = "file://"

\* artworkUrl.startsWith('http')
StartsWithHttp(url) == url.pre \in {"http://", "https://"}

\* path.join(uploadsDir, path.basename(filePath)) as a vscode-resource URI
FileTarget(url) == Str("vscode-resource:", "uploads", url.base)

\* path.join(uploadsDir, `artwork_${Date.now()}.jpg`) as a vscode-resource URI
HttpTarget(t) == Str("vscode-resource:", "uploads", "artwork_" \o ToString(t) \o ".jpg")

\* this.artworkCache.has(url) / get(url)
CacheHas(cache, url) == url \in DOMAIN cache /\ cache[url] # Null

\* One call of the subscriber, as the history records it: the record passed,
\* the locator the tick's sample carried, and whether a resolution of that
\* locator had succeeded by then in the undisposed service.
Call(track, orig, ret, disp) ==
    [track |-> track, orig |-> orig,
     resolvedBefore |-> (orig \in DOMAIN ret /\ ~disp /\ ret[orig] # {})]

\* Lines 65-70 and the catch of lines 72-78, from the return of
\* downloadArtwork (or from line 63 when it is not called): the record is
\* rewritten in place, the subscriber is called, and a throw of the subscriber
\* lands in the catch, which resets currentTrack and calls the subscriber
\* again. The tick ends and its slot is free. cur/ref/ret are currentTrack,
\* the slot it refers to and `returned` as line 60 and downloadArtwork left
\* them.
FinishTick(i, frame, cur, ref, ret, artworkPath) ==
    LET track == RewriteArt(frame.track, artworkPath)
        cur1 == IF ref = i THEN track ELSE cur
        ref1 == IF ref = i THEN 0 ELSE ref
    IN \E throws \in (IF callbackSet THEN BOOLEAN ELSE {FALSE}) :
        LET caught == throws /\ cur1 # None
            calls == (IF callbackSet
                      THEN <<Call(track, Orig(frame), ret, disposed)>> ELSE <<>>)
                  \o (IF caught
                      THEN <<Call(None, Orig(frame), ret, disposed)>> ELSE <<>>)
        IN /\ currentTrack' = IF caught THEN None ELSE cur1
           /\ currentRef' = IF caught THEN 0 ELSE ref1
           /\ last' = [frame EXCEPT !.pc = "done", !.track = track,
                                    !.cb = callbackSet, !.calls = calls]
           /\ ticks' = [ticks EXCEPT ![i] = IdleFrame]

\* Lines 59-71 from the resolution of getCurrentTrack to the first await that
\* suspends (downloadFile) or to the end of the tick; downloadArtwork is
\* lines 167-223 up to the call of downloadFile.
ProcessSample(i, track) ==
    LET changed == HasTrackChanged(backend, currentTrack, track)
        f0 == [ticks[i] EXCEPT !.sample = track, !.track = track, !.changed = changed]
        url == Orig(f0)
    IN IF ~changed
       THEN /\ last' = [f0 EXCEPT !.pc = "done"]
            /\ ticks' = [ticks EXCEPT ![i] = IdleFrame]
            /\ UNCHANGED <<currentTrack, currentRef, artworkCache, now,
                           transfers, returned>>
       ELSE IF ~NeedsArtwork(track)
       THEN /\ FinishTick(i, f0, track, i, returned, Null)
            /\ UNCHANGED <<artworkCache, now, transfers, returned>>
       ELSE IF url = EmptyStr
       THEN \* if (!artworkUrl) return null
            /\ FinishTick(i, [f0 EXCEPT !.how = "empty"], track, i, returned, Null)
            /\ UNCHANGED <<artworkCache, now, transfers, returned>>
       ELSE LET f1 == [f0 EXCEPT !.prior = returned[url]] IN
            IF CacheHas(artworkCache, url)
            THEN /\ returned' = [returned EXCEPT ![url] = @ \cup {artworkCache[url]}]
                 /\ FinishTick(i, [f1 EXCEPT !.how = "hit"], track, i, returned',
                               artworkCache[url])
                 /\ UNCHANGED <<artworkCache, now, transfers>>
            ELSE IF StartsWithFile(url)
            THEN \* the source exists and copyFileSync succeeds, or null is returned
                 \E copied \in BOOLEAN :
                    IF copied
                    THEN /\ artworkCache' = [artworkCache EXCEPT ![url] = FileTarget(url)]
                         /\ transfers' = [transfers EXCEPT ![url] = @ + 1]
                         /\ returned' = [returned EXCEPT ![url] = @ \cup {FileTarget(url)}]
                         /\ FinishTick(i, [f1 EXCEPT !.how = "copied"], track, i,
                                       returned', FileTarget(url))
                         /\ UNCHANGED now
                    ELSE /\ FinishTick(i, [f1 EXCEPT !.how = "failed"], track, i,
                                       returned, Null)
                         /\ UNCHANGED <<artworkCache, now, transfers, returned>>
            ELSE IF StartsWithHttp(url)
            THEN \* the file name is fixed before the download starts
                 \E t \in now..MaxNow :
                    /\ now' = t
                    /\ ticks' = [ticks EXCEPT ![i] =
                           [f1 EXCEPT !.pc = "downloading", !.how = "pending",
                                      !.target = HttpTarget(t)]]
                    /\ currentTrack' = track
                    /\ currentRef' = i
                    /\ UNCHANGED <<artworkCache, last, transfers, returned>>
            ELSE \* unsupported scheme
                 /\ FinishTick(i, [f1 EXCEPT !.how = "failed"], track, i, returned, Null)
                 /\ UNCHANGED <<artworkCache, now, transfers, returned>>

(***************************************************************************)
(* Locators, file names and files of the resolvers behind getArtworkUri    *)
(***************************************************************************)
\* A locator is the sequence of its bytes (Buffer.from(artUrl)).
UrlA == <<104, 116, 116, 112, 58, 47, 47, 104, 47, 97, 98>>        \* http://h/ab
UrlB == <<104, 116, 116, 112, 58, 47, 47, 104, 47, 97, 98, 63>>    \* http://h/ab?
FileUrl == <<102, 105, 108, 101, 58, 47, 47, 47, 109, 47, 99, 46, 112, 110, 103>>  \* file:///m/c.png
FtpUrl == <<102, 116, 112, 58, 47, 47, 104, 47, 120>>              \* ftp://h/x
EmptyUrl == <<>>

ArtUrls == {UrlA, UrlB, FileUrl, FtpUrl}

HttpPrefix == <<104, 116, 116, 112, 58, 47, 47>>           \* http://
HttpsPrefix == <<104, 116, 116, 112, 115, 58, 47, 47>>     \* https://
FilePrefix == <<102, 105, 108, 101, 58, 47, 47>>           \* file://
DotJpg == <<46, 106, 112, 103>>                            \* .jpg

\* artUrl.startsWith(prefix)
StartsWith(url, prefix) ==
    Len(url) >= Len(prefix) /\ SubSeq(url, 1, Len(prefix)) = prefix

\* artUrl.replace('file://', '') of a locator that starts with it
StripFilePrefix(url) == SubSeq(url, Len(FilePrefix) + 1, Len(url))

\* The symbols of a base64 text: 0..63 are the alphabet (62 is "+", 63 is
\* "/"), Pad is "=", Underscore is "_".
Pad == 64
Underscore == 65

\* Buffer.from(bytes).toString('base64')
RECURSIVE Base64(_)
Base64(b) ==
    IF Len(b) = 0 THEN <<>>
    ELSE IF Len(b) = 1
    THEN <<b[1] \div 4, (b[1] % 4) * 16, Pad, Pad>>
    ELSE IF Len(b) = 2
    THEN <<b[1] \div 4, (b[1] % 4) * 16 + b[2] \div 16, (b[2] % 16) * 4, Pad>>
    ELSE <<b[1] \div 4, (b[1] % 4) * 16 + b[2] \div 16,
           (b[2] % 16) * 4 + b[3] \div 64, b[3] % 64>>
         \o Base64(SubSeq(b, 4, Len(b)))

\* .replace(/[/+=]/g, '_')
Sanitize(t) ==
    [k \in 1..Len(t) |-> IF t[k] \in {62, 63, Pad} THEN Underscore ELSE t[k]]

\* Index of the last byte c of b, 0 if there is none.
LastIndexOf(b, c) ==
    LET at == {k \in 1..Len(b) : b[k] = c}
    IN IF at = {} THEN 0 ELSE CHOOSE k \in at : \A j \in at : j <= k

\* path.extname(sourcePath): from the last "." of the base name, unless the
\* base name has none or starts with its only one.
ExtName(sourcePath) ==
    LET base == SubSeq(sourcePath, LastIndexOf(sourcePath, 47) + 1, Len(sourcePath))
        dot == LastIndexOf(base, 46)
    IN IF dot <= 1 THEN <<>> ELSE SubSeq(base, dot, Len(base))

\* `artwork_${hash}${extension}` in the artwork directory
ArtFile(hash, ext) == [dir |-> "artwork", hash |-> hash, ext |-> ext]

\* index.ts 151-154 / artworkUtil.ts 67-70: the target of a file:// locator
FileLocalPath(url) ==
    LET sourcePath == StripFilePrefix(url)
        extension == IF ExtName(sourcePath) = <<>> THEN DotJpg ELSE ExtName(sourcePath)
    IN ArtFile(Sanitize(Base64(sourcePath)), extension)

\* index.ts 178-180 / artworkUtil.ts 91-93: the target of an http(s) locator
HttpLocalPath(url) == ArtFile(Sanitize(Base64(url)), DotJpg)

ArtFiles == {HttpLocalPath(UrlA), HttpLocalPath(UrlB), FileLocalPath(FileUrl)}

\* What downloadArtwork returns: null, the local path (controller), or
\* vscode.Uri.file(localPath).toString() (ArtworkUtil).
NoPath == [form |-> "null"]
Resolved(r, file) ==
    IF r = "controller" THEN [form |-> "path", file |-> file]
    ELSE [form |-> "uri", file |-> file]

\* A file of the artwork directory: "absent"; "writing" while a write stream
\* that is still fed holds it open; "interrupted" when the stream that wrote
\* it will get no more bytes and was never finished; "complete". `from` is
\* the locator whose bytes it holds.
NoFile == [state |-> "absent", from |-> EmptyUrl]

\* The frame of one call of downloadArtwork:
\*   pc           "idle", "requesting" (protocol.get sent, no response yet),
\*                "writing" (status 200, piping), "hung" (the promise can no
\*                longer settle), "done" (in lastResolve)
\*   how          "none", "empty", "hit", "nosource", "copyfailed", "copied",
\*                "present" (file:// target already on disk), "ondisk"
\*                (http target already on disk), "unsupported", "status",
\*                "error", "downloaded"
\*   result       what the call returned
\*   fileState    the state of the returned file when the call returned
\*   priorFailed  whether the locator's latest ended download had failed when
\*                the call was made
IdleResolve ==
    [pc |-> "idle", url |-> EmptyUrl, how |-> "none", result |-> NoPath,
     fileState |-> "absent", priorFailed |-> FALSE]

ResolveSlots == 1..MaxResolves

ResolverInit ==
    /\ resolverCache = [u \in ArtUrls |-> NoPath]
    /\ disk = [f \in ArtFiles |-> NoFile]
    /\ resolves = [i \in ResolveSlots |-> IdleResolve]
    /\ lastResolve = IdleResolve
    /\ failed = {}

(***************************************************************************)
(* The service's operations                                                *)
(***************************************************************************)
\* The flag starts out set.
InitialFlag_True == TRUE

\* private isPlayerctlAvailable = false
InitialFlag == FALSE

\* What the availability check met, and whether it spawned the helper.
CheckPending == [outcome |-> "pending", spawned |-> FALSE]

ServiceInit ==
    /\ backend \in {"linux", "windows"}
    /\ initPc = "checking"
    /\ isAvailable = InitialFlag
    /\ updateInterval = 0
    /\ activeTimers = {}
    /\ nextTimer = 1
    /\ currentTrack = None
    /\ currentRef = 0
    /\ artworkCache = [l \in Locators |-> Null]
    /\ callbackSet = FALSE
    /\ ticks = [i \in Slots |-> IdleFrame]
    /\ last = IdleFrame
    /\ now = 0
    /\ transfers = [l \in Locators |-> 0]
    /\ returned = [l \in Locators |-> {}]
    /\ disposed = FALSE
    /\ probe = [op |-> "none"]
    /\ checkOutcome = CheckPending

\* The frame of one call of getCurrentTrack, getPosition, playPause, next or
\* previous:
\*   pc       "idle", "running" (the helper is spawned), "hung" (the promise
\*            can no longer settle), "done" (in cmdResult)
\*   avail    the availability flag when the call was made
\*   spawned  whether the call spawned a helper
\*   exit     how the helper ended
\*   settled  "pending", "resolved" or "rejected"
\*   value    what the promise resolved to
\*   notice   the message shown: "none", "warning" or "info"
\*   error    what the Error of a rejection carries
\*   shown    what the provider's message handler showed: "none" or "error"
\*   refreshes  how many updateWebview() calls the handler scheduled
NoExit == [kind |-> "none"]
NoError == [kind |-> "none"]
IdleCommand ==
    [pc |-> "idle", op |-> "none", avail |-> FALSE, spawned |-> FALSE,
     exit |-> NoExit, settled |-> "pending", value |-> None, notice |-> "none",
     error |-> NoError, shown |-> "none", refreshes |-> 0]

CommandSlots == 1..MaxCommands

CommandInit ==
    /\ cmds = [i \in CommandSlots |-> IdleCommand]
    /\ cmdResult = IdleCommand

\* The service alone: no resolver of the controller's is in the picture.
Init ==
    /\ ServiceInit
    /\ resolver = "none"
    /\ ResolverInit
    /\ CommandInit
    /\ controllerDisposed = FALSE

\* What the availability check can meet: the helper exits with 0, exits with
\* another code, cannot be spawned, or (Windows) its executable is missing.
CheckOutcomes(b) ==
    {"exit0", "exit1", "error"} \cup (IF b = "windows" THEN {"missing"} ELSE {})

\* initialize(): the availability check completes and startPolling runs.
\* The exit code was not compared: the flag is set whenever the helper ran.
FlagAfterCheck_AnyExit(outcome) == outcome \in {"exit0", "exit1"}

\* this.isPlayerctlAvailable = code === 0 in the 'exit' handler; false in the
\* 'error' handler and when the executable is missing.
FlagAfterCheck(outcome) == outcome = "exit0"

\* if (!fs.existsSync(this.winKlangPath)) { ... resolve(); return; } comes
\* before the spawn.
CheckSpawns(outcome) == outcome # "missing"

CheckAvailabilityDone ==
    /\ initPc = "checking"
    /\ \E outcome \in CheckOutcomes(backend) :
          /\ isAvailable' = FlagAfterCheck(outcome)
          /\ checkOutcome' = [outcome |-> outcome, spawned |-> CheckSpawns(outcome)]
    /\ initPc' = "done"
    /\ activeTimers' = (activeTimers \ {updateInterval}) \cup {nextTimer}
    /\ updateInterval' = nextTimer
    /\ nextTimer' = nextTimer + 1
    /\ UNCHANGED <<backend, currentTrack, currentRef, artworkCache, callbackSet,
                   ticks, last, now, transfers, returned, disposed, probe>>
    /\ UNCHANGED <<artVars, cmdVars, controllerDisposed>>

\* onTrackChanged(callback)
OnTrackChanged ==
    /\ ~callbackSet
    /\ callbackSet' = TRUE
    /\ UNCHANGED <<backend, initPc, isAvailable, updateInterval, activeTimers,
                   nextTimer, currentTrack, currentRef, artworkCache, ticks, last,
                   now, transfers, returned, disposed, probe>>
    /\ UNCHANGED <<checkOutcome, artVars, cmdVars, controllerDisposed>>

\* The ticks are serialised: the interval's callback is not run while an
\* earlier tick is still in flight.
TimerFire_Serial ==
    /\ activeTimers # {}
    /\ InFlight = {}
    /\ \E i \in Slots :
          /\ ticks[i].pc = "idle"
          /\ \A j \in 1..(i - 1) : ticks[j].pc # "idle"
          /\ IF isAvailable
             THEN /\ ticks' = [ticks EXCEPT ![i].pc = "sampling"]
                  /\ UNCHANGED <<currentTrack, currentRef, artworkCache, last, now,
                                 transfers, returned>>
             ELSE ProcessSample(i, None)
    /\ UNCHANGED <<backend, initPc, isAvailable, updateInterval, activeTimers,
                   nextTimer, callbackSet, disposed, probe>>
    /\ UNCHANGED <<checkOutcome, artVars, cmdVars, controllerDisposed>>

\* The interval fires and its callback runs to the first await that suspends:
\* getCurrentTrack returns null at once when the helper is unavailable, and
\* spawns the helper otherwise. The tick takes the first free slot.
TimerFire ==
    /\ activeTimers # {}
    /\ \E i \in Slots :
          /\ ticks[i].pc = "idle"
          /\ \A j \in 1..(i - 1) : ticks[j].pc # "idle"
          /\ IF isAvailable
             THEN /\ ticks' = [ticks EXCEPT ![i].pc = "sampling"]
                  /\ UNCHANGED <<currentTrack, currentRef, artworkCache, last, now,
                                 transfers, returned>>
             ELSE ProcessSample(i, None)
    /\ UNCHANGED <<backend, initPc, isAvailable, updateInterval, activeTimers,
                   nextTimer, callbackSet, disposed, probe>>
    /\ UNCHANGED <<checkOutcome, artVars, cmdVars, controllerDisposed>>

\* The helper of the tick in slot i closes and getCurrentTrack resolves, to a
\* record or to null.
SampleDoneOf(i) ==
    /\ ticks[i].pc = "sampling"
    /\ \E track \in Samples \cup {None} : ProcessSample(i, track)
    /\ UNCHANGED <<backend, initPc, isAvailable, updateInterval, activeTimers,
                   nextTimer, callbackSet, disposed, probe>>
    /\ UNCHANGED <<checkOutcome, artVars, cmdVars, controllerDisposed>>

SampleDone == \E i \in Slots : SampleDoneOf(i)

\* How a download can end: "ok" (status 200 and the file stream finishes),
\* "status" (another status), "error" (the request fails before a response),
\* "streamError" (the file stream fails), all of which settle downloadFile;
\* and the response failing after status 200 (DownloadAborted), for which
\* downloadFile has no handler.
Settled == {"ok", "status", "error", "streamError"}

\* downloadFile of the tick in slot i settles, downloadArtwork returns and the
\* tick runs to its end.
DownloadDoneOf(i) ==
    /\ ticks[i].pc = "downloading"
    /\ \E outcome \in Settled :
          LET f == ticks[i]
              url == Orig(f)
          IN IF outcome = "ok"
             THEN /\ artworkCache' = [artworkCache EXCEPT ![url] = f.target]
                  /\ transfers' = [transfers EXCEPT ![url] = @ + 1]
                  /\ returned' = [returned EXCEPT ![url] = @ \cup {f.target}]
                  /\ FinishTick(i, [f EXCEPT !.how = "downloaded"], currentTrack,
                                currentRef, returned', f.target)
             ELSE /\ FinishTick(i, [f EXCEPT !.how = "failed"], currentTrack,
                                currentRef, returned, Null)
                  /\ UNCHANGED <<artworkCache, transfers, returned>>
    /\ UNCHANGED <<backend, initPc, isAvailable, updateInterval, activeTimers,
                   nextTimer, callbackSet, now, disposed, probe>>
    /\ UNCHANGED <<checkOutcome, artVars, cmdVars, controllerDisposed>>

DownloadDone == \E i \in Slots : DownloadDoneOf(i)

\* The response of a tick's download fails after status 200: pipe() does not
\* end the file stream, neither 'finish' nor 'error' is emitted, and
\* downloadFile never settles.
DownloadAborted ==
    /\ \E i \in Slots :
          /\ ticks[i].pc = "downloading"
          /\ ticks' = [ticks EXCEPT ![i].pc = "hung"]
    /\ UNCHANGED <<backend, initPc, isAvailable, updateInterval, activeTimers,
                   nextTimer, currentTrack, currentRef, artworkCache, callbackSet,
                   last, now, transfers, returned, disposed, probe>>
    /\ UNCHANGED <<checkOutcome, artVars, cmdVars, controllerDisposed>>

\* dispose() also resets the availability flag.
Dispose_ClearsFlag ==
    /\ ~disposed
    /\ disposed' = TRUE
    /\ isAvailable' = FALSE
    /\ activeTimers' = IF updateInterval # 0 THEN activeTimers \ {updateInterval}
                       ELSE activeTimers
    /\ updateInterval' = 0
    /\ artworkCache' = [l \in Locators |-> Null]
    /\ returned' = [l \in Locators |-> {}]
    /\ UNCHANGED <<backend, initPc, nextTimer, currentTrack, currentRef,
                   callbackSet, ticks, last, now, transfers, probe>>
    /\ UNCHANGED <<checkOutcome, artVars, cmdVars, controllerDisposed>>

\* dispose()
Dispose ==
    /\ ~disposed
    /\ disposed' = TRUE
    /\ activeTimers' = IF updateInterval # 0 THEN activeTimers \ {updateInterval}
                       ELSE activeTimers
    /\ updateInterval' = 0
    /\ artworkCache' = [l \in Locators |-> Null]
    /\ returned' = [l \in Locators |-> {}]
    /\ UNCHANGED <<backend, initPc, isAvailable, nextTimer, currentTrack, currentRef,
                   callbackSet, ticks, last, now, transfers, probe>>
    /\ UNCHANGED <<checkOutcome, artVars, cmdVars, controllerDisposed>>

Next ==
    \/ CheckAvailabilityDone
    \/ OnTrackChanged
    \/ TimerFire
    \/ SampleDone
    \/ DownloadDone
    \/ DownloadAborted
    \/ Dispose

Spec == Init /\ [][Next]_vars

(***************************************************************************)
(* PureSpec: hasTrackChanged on every pair of a bounded domain             *)
(***************************************************************************)
PureTracks ==
    {Track(t, u, a, al, p, d, s, pl) :
        t \in {"A", "B"}, u \in {LocHttp, LocFile}, a \in {"X", "Y"},
        al \in {"Al", "Al2"}, p \in (0..MaxPos) \cup {NaN}, d \in {200, 201},
        s \in {"playing", "paused"}, pl \in {"P", "Q"}}

\* hasTrackChanged(newTrack) of each service with this.currentTrack = cur.
ApplyHasTrackChanged ==
    /\ probe.op = "none"
    /\ \E cur \in PureTracks \cup {None}, newTrack \in PureTracks \cup {None} :
          probe' = [op |-> "hasTrackChanged", cur |-> cur, newTrack |-> newTrack,
                    linux |-> LinuxHasTrackChanged(cur, newTrack),
                    windows |-> WindowsHasTrackChanged(cur, newTrack)]
    /\ UNCHANGED <<backend, initPc, isAvailable, updateInterval, activeTimers,
                   nextTimer, currentTrack, currentRef, artworkCache, callbackSet,
                   ticks, last, now, transfers, returned, disposed>>
    /\ UNCHANGED <<checkOutcome, artVars, cmdVars, controllerDisposed>>

PureNext == ApplyHasTrackChanged

PureSpec == Init /\ [][PureNext]_vars

(***************************************************************************)
(* ArtSpec: downloadArtwork of WindowsMusicController and of ArtworkUtil   *)
(***************************************************************************)
\* A WindowsMusicController has been constructed (which initializes
\* ArtworkUtil) over an empty artwork directory.
ArtInit ==
    /\ ServiceInit
    /\ backend = "windows"
    /\ resolver \in {"controller", "util"}
    /\ ResolverInit
    /\ CommandInit
    /\ controllerDisposed = FALSE

svcVars == <<backend, initPc, isAvailable, updateInterval, activeTimers, nextTimer,
             currentTrack, currentRef, artworkCache, callbackSet, ticks, last, now,
             transfers, returned, disposed, checkOutcome>>

\* The call in slot i returns `result`.
ReturnResolve(i, frame, how, result, dsk) ==
    /\ lastResolve' = [frame EXCEPT !.pc = "done", !.how = how, !.result = result,
                          !.fileState = IF result.form \in {"path", "uri"}
                                        THEN dsk[result.file].state
                                        ELSE "absent"]
    /\ resolves' = [resolves EXCEPT ![i] = IdleResolve]

\* this.artworkCache.set(artUrl, ...)
CacheSet(cache, url, result) == [cache EXCEPT ![url] = result]

\* What a call for a file:// locator can meet: the source is missing, the
\* source is there and can be copied, or it is there and copyFileSync throws.
FileSources == {"missing", "ok", "copyfails"}

\* downloadArtwork(artUrl) is called and runs to its first suspension:
\* index.ts 107-189 (through getArtworkUri), artworkUtil.ts 23-102.
ResolveCall ==
    /\ resolver # "none"
    /\ \E i \in ResolveSlots, url \in ArtUrls \cup {EmptyUrl} :
          /\ resolves[i].pc = "idle"
          /\ \A j \in 1..(i - 1) : resolves[j].pc # "idle"
          /\ LET frame == [IdleResolve EXCEPT !.url = url,
                                               !.priorFailed = (url \in failed)]
             IN IF url = EmptyUrl
                THEN /\ ReturnResolve(i, frame, "empty", NoPath, disk)
                     /\ UNCHANGED <<resolverCache, disk>>
                ELSE IF resolverCache[url] # NoPath
                THEN /\ ReturnResolve(i, frame, "hit", resolverCache[url], disk)
                     /\ UNCHANGED <<resolverCache, disk>>
                ELSE IF StartsWith(url, FilePrefix)
                THEN \E source \in FileSources :
                        LET localPath == FileLocalPath(url)
                            copies == disk[localPath].state = "absent"
                        IN IF source = "missing"
                           THEN /\ ReturnResolve(i, frame, "nosource", NoPath, disk)
                                /\ UNCHANGED <<resolverCache, disk>>
                           ELSE IF copies /\ source = "copyfails"
                           THEN \* the controller's catch returns null; ArtworkUtil
                                \* returns handleFileUrl's promise unawaited, so its
                                \* catch is not reached and the call rejects
                                /\ ReturnResolve(i, frame, "copyfailed",
                                      IF resolver = "controller" THEN NoPath
                                      ELSE [form |-> "rejected"], disk)
                                /\ UNCHANGED <<resolverCache, disk>>
                           ELSE /\ disk' = IF copies
                                           THEN [disk EXCEPT ![localPath] =
                                                   [state |-> "complete", from |-> url]]
                                           ELSE disk
                                /\ resolverCache' =
                                      CacheSet(resolverCache, url, Resolved(resolver, localPath))
                                /\ ReturnResolve(i, frame,
                                      IF copies THEN "copied" ELSE "present",
                                      Resolved(resolver, localPath), disk')
                ELSE IF ~(StartsWith(url, HttpPrefix) \/ StartsWith(url, HttpsPrefix))
                THEN /\ ReturnResolve(i, frame, "unsupported", NoPath, disk)
                     /\ UNCHANGED <<resolverCache, disk>>
                ELSE LET localPath == HttpLocalPath(url)
                     IN IF disk[localPath].state # "absent"
                        THEN \* fs.existsSync(localPath)
                             /\ resolverCache' =
                                   CacheSet(resolverCache, url, Resolved(resolver, localPath))
                             /\ ReturnResolve(i, frame, "ondisk",
                                   Resolved(resolver, localPath), disk)
                             /\ UNCHANGED disk
                        ELSE /\ resolves' = [resolves EXCEPT ![i] =
                                               [frame EXCEPT !.pc = "requesting"]]
                             /\ UNCHANGED <<resolverCache, disk, lastResolve>>
    /\ UNCHANGED <<resolver, failed, svcVars, probe, cmdVars,
                   controllerDisposed>>

\* Whether a call other than i is piping into the file.
OtherWriter(i, file) ==
    \E j \in ResolveSlots \ {i} :
        resolves[j].pc = "writing" /\ HttpLocalPath(resolves[j].url) = file

\* The request of the call in slot i gets its response, or fails before one:
\* status 200 opens the write stream (which creates or truncates the file);
\* another status, or the request's 'error', resolves the call with null.
ResponseOf(i) ==
    /\ resolves[i].pc = "requesting"
    /\ LET frame == resolves[i]
           localPath == HttpLocalPath(frame.url)
       IN \E outcome \in {"200", "status", "error"} :
             IF outcome = "200"
             THEN /\ disk' = [disk EXCEPT ![localPath] =
                                 [state |-> "writing", from |-> frame.url]]
                  /\ resolves' = [resolves EXCEPT ![i].pc = "writing"]
                  /\ UNCHANGED <<lastResolve, failed>>
             ELSE /\ ReturnResolve(i, frame, outcome, NoPath, disk)
                  /\ failed' = failed \cup {frame.url}
                  /\ UNCHANGED disk
    /\ UNCHANGED <<resolver, resolverCache, svcVars, probe, cmdVars,
                   controllerDisposed>>

Response == \E i \in ResolveSlots : ResponseOf(i)

\* The write stream of the call in slot i emits 'finish'.
FinishOf(i) ==
    /\ resolves[i].pc = "writing"
    /\ LET frame == resolves[i]
           localPath == HttpLocalPath(frame.url)
       IN /\ disk' = IF OtherWriter(i, localPath) THEN disk
                     ELSE [disk EXCEPT ![localPath].state = "complete"]
          /\ resolverCache' =
                CacheSet(resolverCache, frame.url, Resolved(resolver, localPath))
          /\ ReturnResolve(i, frame, "downloaded", Resolved(resolver, localPath), disk')
          /\ failed' = failed \ {frame.url}
    /\ UNCHANGED <<resolver, svcVars, probe, cmdVars,
                   controllerDisposed>>

Finish == \E i \in ResolveSlots : FinishOf(i)

\* The response of the call in slot i fails after status 200 (or its write
\* stream fails): no listener settles the promise, and the bytes written so
\* far stay in the file.
AbortOf(i) ==
    /\ resolves[i].pc = "writing"
    /\ LET frame == resolves[i]
           localPath == HttpLocalPath(frame.url)
       IN /\ disk' = IF OtherWriter(i, localPath) THEN disk
                     ELSE [disk EXCEPT ![localPath].state = "interrupted"]
          /\ resolves' = [resolves EXCEPT ![i].pc = "hung"]
          /\ failed' = failed \cup {frame.url}
    /\ UNCHANGED <<resolver, resolverCache, lastResolve, svcVars, probe, cmdVars,
                   controllerDisposed>>

Abort == \E i \in ResolveSlots : AbortOf(i)

\* ArtworkUtil.clearCache()
ClearCache ==
    /\ resolver = "util"
    /\ resolverCache' = [u \in ArtUrls |-> NoPath]
    /\ UNCHANGED <<resolver, disk, resolves, lastResolve, failed, svcVars, probe, cmdVars,
                   controllerDisposed>>

ArtNext ==
    \/ ResolveCall
    \/ Response
    \/ Finish
    \/ Abort
    \/ ClearCache

ArtSpec == ArtInit /\ [][ArtNext]_vars

(***************************************************************************)
(* CmdSpec: the queries and controls of the services                       *)
(***************************************************************************)
Controls == {"playPause", "next", "previous"}
Queries == {"getCurrentTrack", "getPosition"}
Ops == Queries \cup Controls

\* The availability test is forgotten: the helper is spawned regardless.
Inert_Never(avail) == FALSE

\* if (!this.isPlayerctlAvailable) { ... return; }
Inert(avail) == ~avail

\* A position, as getPosition resolves to it.
Num(n) == [kind |-> "number", n |-> n]

\* Exit codes of the helper.
ExitCodes == {0, 1, 2}

\* Captured standard error, as the pieces it is made of.
NoStderr == <<>>
MarkerStderr == <<"Control ", "not available", " for this player">>
OtherStderr == <<"boom">>
StderrTexts == {NoStderr, MarkerStderr, OtherStderr}

\* errorOutput.includes('not available')
IncludesNotAvailable(errorOutput) ==
    \E k \in 1..Len(errorOutput) : errorOutput[k] = "not available"

\* Whether the control collects the helper's standard error: only next and
\* previous of WindowsMusicService do (windows/musicService.ts 293-296,
\* 326-329).
CapturesStderr(b, op) == b = "windows" /\ op \in {"next", "previous"}

\* What the 'close' handler of a control does with an exit code and the
\* standard error the helper wrote.
ControlOnClose(b, op, frame, code, stderr) ==
    LET f == [frame EXCEPT !.exit = [kind |-> "close", code |-> code, stderr |-> stderr]]
    IN IF code = 0
       THEN [f EXCEPT !.settled = "resolved"]
       ELSE IF CapturesStderr(b, op) /\ IncludesNotAvailable(stderr)
       THEN [f EXCEPT !.settled = "resolved", !.notice = "info"]
       ELSE IF CapturesStderr(b, op)
       THEN [f EXCEPT !.settled = "rejected",
                      !.error = [kind |-> "failed", code |-> code, stderr |-> stderr]]
       ELSE [f EXCEPT !.settled = "rejected",
                      !.error = [kind |-> "failed", code |-> code]]

\* track?.position || null
PositionOrNull(track) ==
    IF track = None \/ OrZero(track.position) = 0 THEN None ELSE Num(track.position)

\* What `playerctl position` can print with exit code 0: a number, or
\* something parseFloat makes NaN of.
PositionOutputs == {Num(0), Num(3), None}

\* handleWebviewMessage of the provider, from the point where the control it
\* awaits (through the controller, which passes the call on) has settled as
\* frame f says: a rejection leaves the switch for the catch, which shows the
\* error; otherwise setTimeout(() => this.updateWebview(), 100) runs once.
HandleWebviewMessage(f) ==
    IF f.settled = "rejected"
    THEN [f EXCEPT !.shown = "error"]
    ELSE [f EXCEPT !.refreshes = f.refreshes + 1]

\* The call in slot i settles as frame f says; a control was awaited by the
\* provider's message handler, which goes on.
SettleCommand(i, f) ==
    /\ cmdResult' = [(IF f.op \in Controls THEN HandleWebviewMessage(f) ELSE f)
                        EXCEPT !.pc = "done"]
    /\ cmds' = [cmds EXCEPT ![i] = IdleCommand]

\* A query or control is called and runs to its first suspension.
CommandCall ==
    /\ \E i \in CommandSlots, op \in Ops :
          /\ cmds[i].pc = "idle"
          /\ \A j \in 1..(i - 1) : cmds[j].pc # "idle"
          /\ LET frame == [IdleCommand EXCEPT !.op = op, !.avail = isAvailable]
             IN IF Inert(isAvailable)
                THEN SettleCommand(i, [frame EXCEPT
                        !.settled = "resolved",
                        !.notice = IF op \in Controls THEN "warning" ELSE "none"])
                ELSE /\ cmds' = [cmds EXCEPT ![i] =
                                   [frame EXCEPT !.pc = "running", !.spawned = TRUE]]
                     /\ UNCHANGED cmdResult
    /\ UNCHANGED <<svcVars, probe, artVars, controllerDisposed>>

\* The helper of the call in slot i ends and its 'close' (getPosition on
\* Linux: 'exit') handler runs.
HelperCloseOf(i) ==
    /\ cmds[i].pc = "running"
    /\ LET frame == cmds[i]
           op == frame.op
       IN IF op \in Controls
          THEN \E code \in ExitCodes, stderr \in StderrTexts :
                  SettleCommand(i, ControlOnClose(backend, op, frame, code, stderr))
          ELSE IF op = "getCurrentTrack"
          THEN \E track \in Samples \cup {None} :
                  SettleCommand(i, [frame EXCEPT !.settled = "resolved", !.value = track,
                                                 !.exit = [kind |-> "close"]])
          ELSE IF backend = "windows"
          THEN \* getPosition awaits getCurrentTrack
               \E track \in Samples \cup {None} :
                  SettleCommand(i, [frame EXCEPT !.settled = "resolved",
                                                 !.value = PositionOrNull(track),
                                                 !.exit = [kind |-> "close", track |-> track]])
          ELSE \E code \in ExitCodes, out \in PositionOutputs :
                  SettleCommand(i, [frame EXCEPT
                      !.settled = "resolved",
                      !.value = IF code = 0 THEN out ELSE None,
                      !.exit = [kind |-> "close", code |-> code, out |-> out]])
    /\ UNCHANGED <<svcVars, probe, artVars, controllerDisposed>>

HelperClose == \E i \in CommandSlots : HelperCloseOf(i)

\* The helper of the call in slot i cannot be spawned and emits 'error': the
\* queries resolve to null, the controls of WindowsMusicService reject, and
\* the controls of LinuxMusicService have no 'error' listener, so that the
\* event is thrown where it is emitted and 'close' never comes.
HelperErrorOf(i) ==
    /\ cmds[i].pc = "running"
    /\ LET frame == [cmds[i] EXCEPT !.exit = [kind |-> "error"]]
       IN IF frame.op \in Queries
          THEN SettleCommand(i, [frame EXCEPT !.settled = "resolved"])
          ELSE IF backend = "windows"
          THEN SettleCommand(i, [frame EXCEPT !.settled = "rejected",
                                              !.error = [kind |-> "spawn"]])
          ELSE /\ cmds' = [cmds EXCEPT ![i] = [frame EXCEPT !.pc = "hung"]]
               /\ UNCHANGED cmdResult
    /\ UNCHANGED <<svcVars, probe, artVars, controllerDisposed>>

HelperError == \E i \in CommandSlots : HelperErrorOf(i)

CmdNext ==
    \/ CheckAvailabilityDone
    \/ CommandCall
    \/ HelperClose
    \/ HelperError

CmdSpec == Init /\ [][CmdNext]_vars

(***************************************************************************)
(* CtlSpec: the service as WindowsMusicController owns it                  *)
(***************************************************************************)
\* new WindowsMusicController(context): the controller constructs its
\* WindowsMusicService, whose constructor starts initialize(). The controller
\* registers no subscriber and never calls the service's dispose().
CtlInit ==
    /\ Init
    /\ backend = "windows"

\* WindowsMusicController.dispose(), which MusicWebviewProvider.dispose()
\* calls: its body is empty.
ControllerDispose ==
    /\ ~controllerDisposed
    /\ controllerDisposed' = TRUE
    /\ UNCHANGED <<svcVars, probe, artVars, cmdVars>>

CtlNext ==
    \/ CheckAvailabilityDone
    \/ TimerFire
    \/ SampleDone
    \/ DownloadDone
    \/ DownloadAborted
    \/ ControllerDispose

CtlSpec == CtlInit /\ [][CtlNext]_vars

(***************************************************************************)
(* Texts: the helper's output and the string operations applied to it      *)
(***************************************************************************)
\* A text is the sequence of its characters.
Digits == <<"0", "1", "2", "3", "4", "5", "6", "7", "8", "9">>

IsDigit(c) == \E k \in 1..Len(Digits) : Digits[k] = c

DigitValue(c) == (CHOOSE k \in 1..Len(Digits) : Digits[k] = c) - 1

UpperCase == <<"A", "B", "C", "D", "E", "F", "G", "H", "I", "J", "K", "L", "M",
               "N", "O", "P", "Q", "R", "S", "T", "U", "V", "W", "X", "Y", "Z">>

LowerCase == <<"a", "b", "c", "d", "e", "f", "g", "h", "i", "j", "k", "l", "m",
               "n", "o", "p", "q", "r", "s", "t", "u", "v", "w", "x", "y", "z">>

ToLowerChar(c) ==
    IF \E k \in 1..Len(UpperCase) : UpperCase[k] = c
    THEN LowerCase[CHOOSE k \in 1..Len(UpperCase) : UpperCase[k] = c]
    ELSE c

\* String.prototype.toLowerCase
ToLowerCase(s) == IF s = <<>> THEN <<>> ELSE [k \in 1..Len(s) |-> ToLowerChar(s[k])]

\* The white space trim() removes.
IsWhite(c) == c \in {" ", "\n"}

RECURSIVE TrimStart(_)
TrimStart(s) == IF s # <<>> /\ IsWhite(Head(s)) THEN TrimStart(Tail(s)) ELSE s

RECURSIVE TrimEnd(_)
TrimEnd(s) ==
    IF s # <<>> /\ IsWhite(s[Len(s)]) THEN TrimEnd(SubSeq(s, 1, Len(s) - 1)) ELSE s

\* String.prototype.trim
Trim(s) == TrimEnd(TrimStart(s))

\* The text d stands in s at position k.
HasAt(s, d, k) == k + Len(d) - 1 <= Len(s) /\ SubSeq(s, k, k + Len(d) - 1) = d

\* String.prototype.includes
Includes(s, d) == \E k \in 1..(Len(s) + 1) : HasAt(s, d, k)

\* The fields of s from position k on, cur being the field collected so far.
RECURSIVE SplitFrom(_, _, _, _)
SplitFrom(s, d, k, cur) ==
    IF k > Len(s) THEN <<cur>>
    ELSE IF HasAt(s, d, k) THEN <<cur>> \o SplitFrom(s, d, k + Len(d), <<>>)
    ELSE SplitFrom(s, d, k + 1, Append(cur, s[k]))

\* String.prototype.split with a non-empty separator
Split(s, d) == SplitFrom(s, d, 1, <<>>)

\* The fields joined by the separator: what the helper prints for a format
\* of fields separated by d.
RECURSIVE Join(_, _)
Join(fields, d) ==
    IF fields = <<>> THEN <<>>
    ELSE IF Len(fields) = 1 THEN fields[1]
    ELSE fields[1] \o d \o Join(Tail(fields), d)

\* The number of leading digits of s.
RECURSIVE CountDigits(_)
CountDigits(s) ==
    IF s # <<>> /\ IsDigit(Head(s)) THEN 1 + CountDigits(Tail(s)) ELSE 0

\* The value of the numeral s after the digits read so far made acc.
RECURSIVE Decimal(_, _)
Decimal(s, acc) ==
    IF s = <<>> THEN acc ELSE Decimal(Tail(s), 10 * acc + DigitValue(Head(s)))

\* parseInt(s) and parseInt(s, 10) on a text without a 0x prefix: leading
\* white space is skipped, a sign is read, then the longest run of digits;
\* NaN when there is no digit.
ParseInt(s) ==
    LET t == TrimStart(s)
        signed == t # <<>> /\ Head(t) \in {"-", "+"}
        u == IF signed THEN Tail(t) ELSE t
        n == CountDigits(u)
        v == Decimal(SubSeq(u, 1, n), 0)
    IN IF n = 0 THEN NaN
       ELSE IF signed /\ Head(t) = "-" THEN -v ELSE v

\* a * b and a + b of numbers either of which may be NaN
Times(a, b) == IF a = NaN \/ b = NaN THEN NaN ELSE a * b

Plus(a, b) == IF a = NaN \/ b = NaN THEN NaN ELSE a + b

\* JavaScript values of the kinds a field of the helper's output can have.
JsStr(s) == [type |-> "string", v |-> s]
JsNum(n) == [type |-> "number", n |-> n]
Undefined == [type |-> "undefined"]
JsNull == [type |-> "null"]

\* Whether a value counts as true in (x || y) and if (!x).
Truthy(x) ==
    IF x.type = "string" THEN x.v # <<>>
    ELSE IF x.type = "number" THEN x.n # 0 /\ x.n # NaN
    ELSE x.type = "object"

\* x || y
Or(x, y) == IF Truthy(x) THEN x ELSE y

\* An element of an array, undefined beyond its end.
Part(parts, k) == IF k <= Len(parts) THEN JsStr(parts[k]) ELSE Undefined

(***************************************************************************)
(* Time strings and playback status                                        *)
(***************************************************************************)
Colon == <<":">>
ZeroTime == <<"0", "0", ":", "0", "0">>

\* LinuxMusicService.parseDuration
ParseDuration(duration) ==
    IF duration = <<>> THEN 0
    ELSE LET parts == Split(duration, Colon)
         IN IF Len(parts) = 2
            THEN Plus(Times(ParseInt(parts[1]), 60), ParseInt(parts[2]))
            ELSE 0

\* WindowsMusicService.parseTimeToSeconds
ParseTimeToSeconds(timeString) ==
    IF timeString = <<>> \/ timeString = ZeroTime THEN 0
    ELSE LET parts == Split(timeString, Colon)
         IN IF Len(parts) = 2
            THEN OrZero(ParseInt(parts[1])) * 60 + OrZero(ParseInt(parts[2]))
            ELSE 0

Playing == <<"p", "l", "a", "y", "i", "n", "g">>
Paused == <<"p", "a", "u", "s", "e", "d">>
Stopped == <<"s", "t", "o", "p", "p", "e", "d">>
Play == <<"p", "l", "a", "y">>
Pause == <<"p", "a", "u", "s", "e">>

\* WindowsMusicService.mapPlaybackStatus on a string
MapPlaybackStatus(status) ==
    IF status = <<>> THEN Stopped
    ELSE LET normalizedStatus == ToLowerCase(status)
         IN IF Includes(normalizedStatus, Play) THEN Playing
            ELSE IF Includes(normalizedStatus, Pause) THEN Paused
            ELSE Stopped

\* (parts[6]?.toLowerCase() as any) || 'stopped' of LinuxMusicService
LinuxStatus(raw) ==
    IF raw.type = "undefined" THEN JsStr(Stopped)
    ELSE Or(JsStr(ToLowerCase(raw.v)), JsStr(Stopped))

(***************************************************************************)
(* ParseSpec: what getCurrentTrack makes of the helper's exit and output   *)
(***************************************************************************)
UnknownTitle == <<"U", "n", "k", "n", "o", "w", "n", " ", "T", "i", "t", "l", "e">>
UnknownArtist == <<"U", "n", "k", "n", "o", "w", "n", " ", "A", "r", "t", "i", "s", "t">>
UnknownAlbum == <<"U", "n", "k", "n", "o", "w", "n", " ", "A", "l", "b", "u", "m">>
UnknownPlayer == <<"U", "n", "k", "n", "o", "w", "n", " ", "P", "l", "a", "y", "e", "r">>
WindowsMediaSession == <<"W", "i", "n", "d", "o", "w", "s", " ", "M", "e", "d", "i", "a", " ",
                         "S", "e", "s", "s", "i", "o", "n">>

\* const delimiter = '|||'
Delimiter == <<"|", "|", "|">>

\* How the promise of getCurrentTrack settles.
Resolve(v) == [settled |-> "resolved", value |-> v]
Reject == [settled |-> "rejected", value |-> None]

\* The field count is off by one: seven fields are taken for a record.
EnoughParts_AtLeast7(parts) == Len(parts) >= 7

\* if (parts.length >= 8)
EnoughParts(parts) == Len(parts) >= 8

\* this.parseDuration(parts[k]) of an element that may be undefined
ParseDurationOf(x) == IF x.type = "undefined" THEN 0 ELSE ParseDuration(x.v)

\* The 'close' handler of LinuxMusicService.getCurrentTrack.
LinuxOnClose(code, output) ==
    LET cleanedOutput == Trim(output)
        parts == Split(cleanedOutput, Delimiter)
    IN IF code = 0 /\ cleanedOutput # <<>>
       THEN IF EnoughParts(parts)
            THEN Resolve(Track(Or(Part(parts, 1), JsStr(UnknownTitle)),
                               Or(Part(parts, 2), JsStr(<<>>)),
                               Or(Part(parts, 3), JsStr(UnknownArtist)),
                               Or(Part(parts, 4), JsStr(UnknownAlbum)),
                               ParseDurationOf(Part(parts, 5)),
                               ParseDurationOf(Part(parts, 6)),
                               LinuxStatus(Part(parts, 7)),
                               Or(Part(parts, 8), JsStr(UnknownPlayer))))
            ELSE Resolve(None)
       ELSE Resolve(None)

\* What the helper of WindowsMusicService wrote, trimmed: nothing ("blank"),
\* a text JSON.parse throws on ("garbage"), or the JSON text of the value
\* `data` ("json").
Blank == [form |-> "blank"]
Garbage == [form |-> "garbage"]
Json(data) == [form |-> "json", data |-> data]

\* A JSON object with the properties WinKlang prints.
JsObject(title, artworkUri, artist, album, currentTime, duration, status) ==
    [type |-> "object", title |-> title, artworkUri |-> artworkUri, artist |-> artist,
     album |-> album, currentTime |-> currentTime, duration |-> duration,
     status |-> status]

\* What the body of the try block comes to: a record, or a throw.
Threw == [threw |-> TRUE, value |-> None]
Value(v) == [threw |-> FALSE, value |-> v]

\* this.parseTimeToSeconds(x || '00:00'): split is a method of strings only.
TimeOf(x) ==
    LET timeString == Or(x, JsStr(ZeroTime))
    IN IF timeString.type = "string" THEN Value(ParseTimeToSeconds(timeString.v))
       ELSE Threw

\* this.mapPlaybackStatus(data.status): toLowerCase is a method of strings only.
StatusOf(x) ==
    IF ~Truthy(x) THEN Value(Stopped)
    ELSE IF x.type = "string" THEN Value(MapPlaybackStatus(x.v))
    ELSE Threw

\* Lines 126-139 of WindowsMusicService.getCurrentTrack.
WindowsTry(output) ==
    IF output.form = "garbage" THEN Threw
    ELSE IF output.data.type = "null" THEN Threw
    ELSE LET data == IF output.data.type = "object" THEN output.data
                     ELSE JsObject(Undefined, Undefined, Undefined, Undefined,
                                   Undefined, Undefined, Undefined)
             position == TimeOf(data.currentTime)
             duration == TimeOf(data.duration)
             status == StatusOf(data.status)
         IN IF position.threw \/ duration.threw \/ status.threw THEN Threw
            ELSE Value(Track(Or(data.title, JsStr(UnknownTitle)),
                             Or(data.artworkUri, JsStr(<<>>)),
                             Or(data.artist, JsStr(UnknownArtist)),
                             Or(data.album, JsStr(UnknownAlbum)),
                             position.value, duration.value,
                             JsStr(status.value), JsStr(WindowsMediaSession)))

\* The catch is missing: a throw of the try block rejects the promise.
CatchParse_Rethrows(r) == IF r.threw THEN Reject ELSE Resolve(r.value)

\* try { ...; resolve(track); } catch (error) { ...; resolve(null); }
CatchParse(r) == IF r.threw THEN Resolve(None) ELSE Resolve(r.value)

\* The 'close' handler of WindowsMusicService.getCurrentTrack.
WindowsOnClose(code, output) ==
    IF code = 0 /\ output.form # "blank" THEN CatchParse(WindowsTry(output))
    ELSE Resolve(None)

\* Time strings the helper may print.
TimeTexts ==
    {<<>>, ZeroTime,
     <<"0", "2", ":", "3", "0">>,
     <<"2", ":", "5">>,
     <<"a", "b", ":", "3", "0">>,
     <<"0", "2", ":", "x", "x">>,
     <<"-", "1", ":", "3", "0">>,
     <<"1", ":", "0", "2", ":", "0", "3">>,
     <<"9", "0">>,
     <<":">>,
     <<"1", "2", ":">>}

\* Raw status strings the helper may print.
StatusTexts ==
    {<<>>,
     <<"P", "l", "a", "y", "i", "n", "g">>,
     <<"P", "a", "u", "s", "e", "d">>,
     <<"p", "a", "u", "s", "e", "d", " ", "(", "x", ")">>,
     <<"S", "t", "o", "p", "p", "e", "d">>,
     <<"P", "L", "A", "Y">>,
     <<"i", "d", "l", "e">>}

\* The fields playerctl may print for the eight-field format.
LinuxFields ==
    {<<title, artUrl, <<"a">>, <<>>, position, <<"0", "3", ":", "0", "0">>, status, player>> :
        title \in {<<>>, <<"t">>}, artUrl \in {<<>>, <<"u">>},
        position \in TimeTexts, status \in StatusTexts,
        player \in {<<>>, <<"p">>}}

\* Outputs with another number of fields, a single-field one with lone bars
\* among them.
OtherFields ==
    {[k \in 1..n |-> <<"t">>] : n \in {1, 2, 7, 9}} \cup {<<<<"a", "|", "b", "|", "|", "c">>>>}

\* The helper's standard output: the fields joined by the delimiter and a
\* line end, or nothing but white space.
LinuxOutput(fields) == Join(fields, Delimiter) \o <<"\n">>

\* What WinKlang --json may print.
WindowsOutputs ==
    {Blank, Garbage, Json(JsNull), Json(JsNum(5))} \cup
    {Json(JsObject(title, artworkUri, JsStr(<<"a">>), Undefined, currentTime,
                   JsStr(<<"0", "3", ":", "0", "0">>), status)) :
        title \in {Undefined, JsStr(<<"t">>), JsNum(5)},
        artworkUri \in {Undefined, JsStr(<<"u">>)},
        currentTime \in {Undefined, JsNum(90)} \cup {JsStr(t) : t \in TimeTexts},
        status \in {Undefined, JsNum(1)} \cup {JsStr(s) : s \in StatusTexts}}

\* Exit codes of the helper of getCurrentTrack.
SampleExitCodes == {0, 1}

ParseIdle == probe.op = "none"

\* getCurrentTrack of LinuxMusicService: playerctl closes.
LinuxGetCurrentTrack ==
    /\ ParseIdle
    /\ backend = "linux"
    /\ \E code \in SampleExitCodes, fields \in LinuxFields \cup OtherFields \cup {<<>>} :
          LET output == IF fields = <<>> THEN <<" ", "\n">> ELSE LinuxOutput(fields)
              r == LinuxOnClose(code, output)
          IN probe' = [op |-> "getCurrentTrack", event |-> "close", code |-> code,
                       fields |-> fields, output |-> output,
                       settled |-> r.settled, value |-> r.value]
    /\ UNCHANGED <<svcVars, artVars, cmdVars, controllerDisposed>>

\* getCurrentTrack of WindowsMusicService: WinKlang closes.
WindowsGetCurrentTrack ==
    /\ ParseIdle
    /\ backend = "windows"
    /\ \E code \in SampleExitCodes, output \in WindowsOutputs :
          LET r == WindowsOnClose(code, output)
          IN probe' = [op |-> "getCurrentTrack", event |-> "close", code |-> code,
                       fields |-> <<>>, output |-> output,
                       settled |-> r.settled, value |-> r.value]
    /\ UNCHANGED <<svcVars, artVars, cmdVars, controllerDisposed>>

\* getCurrentTrack of either service: the helper cannot be spawned and the
\* 'error' handler resolves the promise with null.
GetCurrentTrackError ==
    /\ ParseIdle
    /\ probe' = [op |-> "getCurrentTrack", event |-> "error", code |-> -2,
                 fields |-> <<>>, output |-> Blank,
                 settled |-> Resolve(None).settled, value |-> Resolve(None).value]
    /\ UNCHANGED <<svcVars, artVars, cmdVars, controllerDisposed>>

\* parseDuration and parseTimeToSeconds applied to one time string.
ApplyParseTime ==
    /\ ParseIdle
    /\ \E text \in TimeTexts :
          probe' = [op |-> "parseTime", text |-> text,
                    linux |-> ParseDuration(text),
                    windows |-> ParseTimeToSeconds(text)]
    /\ UNCHANGED <<svcVars, artVars, cmdVars, controllerDisposed>>

\* The status of the record each service makes of one raw status string.
ApplyStatus ==
    /\ ParseIdle
    /\ \E raw \in StatusTexts :
          probe' = [op |-> "status", raw |-> raw,
                    linux |-> LinuxStatus(JsStr(raw)).v,
                    windows |-> MapPlaybackStatus(raw)]
    /\ UNCHANGED <<svcVars, artVars, cmdVars, controllerDisposed>>

ParseNext ==
    \/ LinuxGetCurrentTrack
    \/ WindowsGetCurrentTrack
    \/ GetCurrentTrackError
    \/ ApplyParseTime
    \/ ApplyStatus

ParseSpec == Init /\ [][ParseNext]_vars

(***************************************************************************)
(* Claims about hasTrackChanged (PureSpec)                                 *)
(***************************************************************************)
\* The position a record counts with: a missing or NaN position counts as 0.
PosOf(t) == IF t.position = NaN THEN 0 ELSE t.position

\* The two positions are more than 2 seconds apart.
DriftOver2(a, b) == PosOf(a) - PosOf(b) > 2 \/ PosOf(b) - PosOf(a) > 2

Applied == probe.op = "hasTrackChanged"

\* C1: for every pair of records (neither null), hasTrackChanged is true
\* exactly when the title, the artist or the status differs or the positions
\* are more than 2 seconds apart, a missing position counting as 0; album,
\* artwork locator, duration and player name have no say. LinuxMusicService
\* and WindowsMusicService agree.
C1_ChangedIffKeyFieldsOrDrift ==
    (Applied /\ probe.cur # None /\ probe.newTrack # None) =>
        LET expected == \/ probe.cur.title # probe.newTrack.title
                        \/ probe.cur.artist # probe.newTrack.artist
                        \/ probe.cur.status # probe.newTrack.status
                        \/ DriftOver2(probe.cur, probe.newTrack)
        IN probe.linux = expected /\ probe.windows = expected

\* C1's case: two records that differ in album, artwork, duration and player
\* and drift by exactly 2 seconds from a missing position, and are unchanged.
C1_Witness ==
    /\ Applied /\ probe.cur # None /\ probe.newTrack # None
    /\ probe.cur.title = probe.newTrack.title
    /\ probe.cur.artist = probe.newTrack.artist
    /\ probe.cur.status = probe.newTrack.status
    /\ probe.cur.album # probe.newTrack.album
    /\ probe.cur.artUrl # probe.newTrack.artUrl
    /\ probe.cur.duration # probe.newTrack.duration
    /\ probe.cur.player # probe.newTrack.player
    /\ probe.cur.position = NaN /\ probe.newTrack.position = 2
    /\ ~probe.linux /\ ~probe.windows

\* C2: hasTrackChanged is false when lastKnown and the sample are both null,
\* and true when exactly one of them is.
C2_AbsenceRule ==
    Applied =>
        /\ (probe.cur = None /\ probe.newTrack = None)
              => (~probe.linux /\ ~probe.windows)
        /\ ((probe.cur = None) # (probe.newTrack = None))
              => (probe.linux /\ probe.windows)

\* C2's case: a record went away, and that counts as a change.
C2_Witness ==
    /\ Applied /\ probe.cur # None /\ probe.newTrack = None
    /\ probe.linux /\ probe.windows

(***************************************************************************)
(* Claims about the poll ticks (Spec)                                      *)
(***************************************************************************)
\* A tick has ended; `last` is its frame.
Ended == last.pc = "done"

\* C3: a tick whose sample is changed against lastKnown calls the registered
\* subscriber exactly once, with the tick's record; a tick whose sample is
\* unchanged never calls it; and a tick that assigns lastKnown is one that
\* notifies (so none that assigned it is left waiting for ever).
C3_OncePerChangedTick ==
    /\ Ended =>
          /\ ~last.changed => Len(last.calls) = 0
          /\ (last.changed /\ last.cb) =>
                /\ Len(last.calls) = 1
                /\ last.calls[1].track = last.track
    /\ \A i \in Slots : ticks[i].pc = "hung" => ~ticks[i].changed

\* A tick ends in this step: the tick of a slot, or one that starts and ends
\* in the same step because the helper is unavailable.
TickEnds ==
    \/ \E i \in Slots : ticks[i].pc # "idle" /\ ticks'[i].pc = "idle"
    \/ TimerFire /\ ~isAvailable

\* C4: the step that ends a tick whose sample is unchanged calls no
\* downloadArtwork and leaves lastKnown, the cache and the transfer counts as
\* they were; and downloadArtwork is only ever called by a tick that found a
\* change on a record with a non-empty locator.
C4_NoResolutionWithoutChange ==
    [][/\ (TickEnds /\ ~last'.changed) =>
             /\ last'.how = "none"
             /\ currentTrack' = currentTrack
             /\ currentRef' = currentRef
             /\ artworkCache' = artworkCache
             /\ transfers' = transfers
             /\ returned' = returned
             /\ now' = now
       /\ \A f \in {last'} \cup {ticks'[i] : i \in Slots} :
             f.how # "none" =>
                /\ f.changed
                /\ f.sample # None
                /\ Orig(f) # EmptyStr]_vars

\* C4's case: a tick has ended unchanged although its sample carried a
\* locator that lastKnown does not carry and the cache does not hold, after
\* an earlier tick had its artwork resolved.
C4_Witness ==
    /\ Ended /\ ~last.changed
    /\ last.sample = SC
    /\ currentTrack # None /\ currentTrack.artUrl # LocFtp
    /\ currentTrack.artUrl.pre = "vscode-resource:"
    /\ ~CacheHas(artworkCache, LocFtp)

\* C5: at most one poll tick is in flight.
C5_AtMostOneTickInFlight == Cardinality(InFlight) <= 1

\* C6: a tick that found a change reaches the call of the subscriber whatever
\* the download does: until it has, the event that lets it go on can occur.
C6_ChangedTickReachesCallback ==
    \A i \in Slots : ticks[i].changed => ENABLED DownloadDoneOf(i)

\* C7: once a resolution of a locator has succeeded in the undisposed service,
\* no record delivered for a sample that carried the locator still carries it.
C7_NoOriginalLocatorAfterResolution ==
    \A k \in 1..Len(last.calls) :
        (last.calls[k].track # None /\ last.calls[k].resolvedBefore) =>
            last.calls[k].track.artUrl # last.calls[k].orig

\* C8: a tick whose artwork resolution failed has ended, its record is the
\* sample as it was taken, artwork locator included, and that record is what
\* the registered subscriber was called with.
C8_FailedResolutionDeliversSample ==
    /\ \A i \in Slots : ticks[i].how # "failed"
    /\ last.how = "failed" =>
          /\ Ended
          /\ last.track = last.sample
          /\ last.cb =>
                /\ Len(last.calls) >= 1
                /\ last.calls[1].track = last.sample

\* C8's case: a download failed and the subscriber got the record with the
\* http locator it was sampled with.
C8_Witness ==
    /\ last.how = "failed" /\ last.cb
    /\ Orig(last) = LocHttp
    /\ Len(last.calls) = 1
    /\ last.calls[1].track.artUrl = LocHttp

\* C9: a call of downloadArtwork made after an earlier call for the same
\* locator has returned a URI (and before the cache is cleared) is a cache
\* hit that returns that same URI.
C9_LaterResolveReturnsSamePath ==
    (Ended /\ last.prior # {}) =>
        /\ last.how = "hit"
        /\ last.prior = {last.track.artUrl}

\* C10: while the service lives, at most one copy or download completes for
\* each locator.
C10_AtMostOneTransferPerLocator ==
    ~disposed => \A l \in Locators : transfers[l] <= 1

(***************************************************************************)
(* Claims about the life of a service (Spec)                               *)
(***************************************************************************)
\* C16: once dispose() has been called, whenever that was, no polling timer
\* is active (so that no poll tick can start).
C16_NoTimerAfterDispose == disposed => activeTimers = {}

\* C18: the availability check always completes, without throwing or
\* rejecting: while it is pending it can complete, and once it has, the flag
\* is true exactly when the helper exited with code 0; a missing executable
\* (Windows) is met without spawning.
C18_CheckSetsFlagIffExit0 ==
    /\ initPc \in {"checking", "done"}
    /\ initPc = "checking" =>
          /\ checkOutcome = CheckPending
          /\ ENABLED CheckAvailabilityDone
    /\ initPc = "done" =>
          /\ checkOutcome.outcome \in CheckOutcomes(backend)
          /\ isAvailable = (checkOutcome.outcome = "exit0")
          /\ checkOutcome.outcome = "missing" => ~checkOutcome.spawned
          /\ checkOutcome.outcome # "missing" => checkOutcome.spawned

\* C18's case: the helper ran and exited with a non-zero code, and the check
\* completed with the flag false.
C18_Witness ==
    /\ initPc = "done"
    /\ checkOutcome.outcome = "exit1"
    /\ ~isAvailable

\* C19: once the availability check has completed, no step changes the flag.
C19_FlagFixedAfterCheck ==
    [][initPc = "done" => isAvailable' = isAvailable]_vars

\* C19's case: the helper was found available, and since then a sample has
\* failed, an artwork resolution has failed and the service was disposed of.
C19_Witness ==
    /\ initPc = "done" /\ isAvailable
    /\ disposed
    /\ Ended /\ last.how = "failed"
    /\ currentTrack # None

\* C20: until the availability check has completed, no timer is set, no poll
\* tick has started or ended, no sample has been taken, the flag is false and
\* getCurrentTrack takes its return-null branch.
C20_NothingBeforeCheckCompletes ==
    initPc = "checking" =>
        /\ activeTimers = {} /\ updateInterval = 0
        /\ InFlight = {}
        /\ ~Ended
        /\ currentTrack = None
        /\ ~isAvailable
        /\ Inert(isAvailable)

\* C20's case: the check is still pending while the client already uses the
\* service (it has registered its subscriber).
C20_Witness ==
    /\ initPc = "checking"
    /\ callbackSet
    /\ ~disposed

(***************************************************************************)
(* Claims about the controller's service (CtlSpec)                         *)
(***************************************************************************)
\* C17: once the controller has been disposed, no poll tick spawns the
\* metadata helper.
C17_NoPollingAfterControllerDispose ==
    [][controllerDisposed =>
          \A i \in Slots : ~(ticks[i].pc = "idle" /\ ticks'[i].pc = "sampling")]_vars

(***************************************************************************)
(* Claims about the resolvers behind getArtworkUri (ArtSpec)               *)
(***************************************************************************)
\* A call of downloadArtwork has returned; lastResolve is its frame.
Returned == lastResolve.pc = "done"

\* C11: a call for a locator whose latest ended download had failed, and
\* which the cache did not answer, returns a path only by downloading again,
\* and the file it returns and caches is the completed download.
C11_RetryAfterFailureTransfersAgain ==
    (Returned /\ lastResolve.priorFailed /\ lastResolve.how # "hit"
        /\ lastResolve.result # NoPath) =>
        /\ lastResolve.how = "downloaded"
        /\ lastResolve.fileState = "complete"

\* C12: no call returns (and with that caches) a file that an interrupted
\* download left partially written.
C12_InterruptedFileNeverReturned ==
    (Returned /\ lastResolve.result \notin {NoPath, [form |-> "rejected"]}) =>
        lastResolve.fileState # "interrupted"

(***************************************************************************)
(* Claims about the queries and controls (CmdSpec)                         *)
(***************************************************************************)
\* A call has settled; cmdResult is its frame.
Settled1 == cmdResult.pc = "done"

\* C13: a query or control called while the availability flag is false
\* spawns no helper; a query resolves to null, a control resolves after
\* showing a warning; and no such call is left in flight.
C13_UnavailableOpsAreInert ==
    /\ \A i \in CommandSlots : cmds[i].pc # "idle" => cmds[i].avail
    /\ (Settled1 /\ ~cmdResult.avail) =>
          /\ ~cmdResult.spawned
          /\ cmdResult.settled = "resolved"
          /\ cmdResult.value = None
          /\ cmdResult.notice = IF cmdResult.op \in Controls THEN "warning" ELSE "none"

\* C13's case: next() was called while the check had found the helper
\* unavailable, and it resolved with a warning.
C13_Witness ==
    /\ Settled1 /\ ~cmdResult.avail
    /\ initPc = "done" /\ ~isAvailable
    /\ cmdResult.op = "next"
    /\ cmdResult.notice = "warning"

\* C14: a control whose helper exits with a non-zero code and a standard
\* error that contains "not available" resolves and shows an informational
\* notice.
C14_MarkerResolvesWithNotice ==
    (Settled1 /\ cmdResult.op \in Controls /\ cmdResult.exit.kind = "close"
        /\ cmdResult.exit.code # 0 /\ IncludesNotAvailable(cmdResult.exit.stderr)) =>
        /\ cmdResult.settled = "resolved"
        /\ cmdResult.notice = "info"

\* C15: a control whose helper exits with a non-zero code and a standard
\* error without the marker rejects with an error that carries the code and
\* the standard error; one whose helper exits with 0 resolves.
C15_HardFailureCarriesCodeAndStderr ==
    (Settled1 /\ cmdResult.op \in Controls /\ cmdResult.exit.kind = "close") =>
        /\ cmdResult.exit.code = 0 => cmdResult.settled = "resolved"
        /\ (cmdResult.exit.code # 0 /\ ~IncludesNotAvailable(cmdResult.exit.stderr)) =>
              /\ cmdResult.settled = "rejected"
              /\ cmdResult.error =
                    [kind |-> "failed", code |-> cmdResult.exit.code,
                     stderr |-> cmdResult.exit.stderr]

\* C26: on Windows, getPosition of an available service resolves to the
\* position of the sample whenever the sample is a record, for every position
\* value (0 included).
C26_WindowsPositionOfEverySample ==
    (Settled1 /\ backend = "windows" /\ cmdResult.op = "getPosition"
        /\ cmdResult.avail /\ cmdResult.exit.kind = "close"
        /\ cmdResult.exit.track # None /\ cmdResult.exit.track.position # NaN) =>
        cmdResult.value = Num(cmdResult.exit.track.position)

(***************************************************************************)
(* Claims about getCurrentTrack and its parsing (ParseSpec)                *)
(***************************************************************************)
Sampled == probe.op = "getCurrentTrack"

\* The helper's output parses: the delimited shape has its eight fields, the
\* JSON shape is JSON.
OutputParses ==
    /\ probe.event = "close"
    /\ IF backend = "linux" THEN Len(probe.fields) >= 8
       ELSE probe.output.form = "json"

\* C21: getCurrentTrack never rejects; it resolves to null for a spawn error,
\* a non-zero exit, an empty output and an output that does not parse, and to
\* a record only when the helper exited with 0 and the output parsed.
C21_GetCurrentTrackNeverRejects ==
    Sampled =>
        /\ probe.settled = "resolved"
        /\ (probe.event = "error" \/ probe.code # 0 \/ ~OutputParses) =>
              probe.value = None
        /\ probe.value # None => (probe.code = 0 /\ OutputParses)

\* C21's case: WinKlang exited with 0 and wrote a text JSON.parse throws on,
\* and getCurrentTrack resolved to null.
C21_Witness ==
    /\ Sampled /\ backend = "windows" /\ probe.event = "close" /\ probe.code = 0
    /\ probe.output = Garbage
    /\ probe.settled = "resolved" /\ probe.value = None

NonEmptyString(x) == x.type = "string" /\ x.v # <<>>

\* C22: every record getCurrentTrack resolves to has non-empty strings for
\* title, artist and album, a status among playing, paused and stopped, and
\* a position and a duration that are numbers >= 0 (not NaN).
C22_RecordFullyResolved ==
    (Sampled /\ probe.value # None) =>
        /\ NonEmptyString(probe.value.title)
        /\ NonEmptyString(probe.value.artist)
        /\ NonEmptyString(probe.value.album)
        /\ probe.value.status.v \in {Playing, Paused, Stopped}
        /\ probe.value.position # NaN /\ probe.value.position >= 0
        /\ probe.value.duration # NaN /\ probe.value.duration >= 0

\* The status the rule of C23 gives a raw status string.
NormalStatus(raw) ==
    IF Includes(ToLowerCase(raw), Play) THEN Playing
    ELSE IF Includes(ToLowerCase(raw), Pause) THEN Paused
    ELSE Stopped

\* C23: on both backends the status of the record is playing when the
\* lower-cased raw string contains "play", else paused when it contains
\* "pause", else stopped.
C23_StatusNormalized ==
    probe.op = "status" =>
        /\ probe.linux = NormalStatus(probe.raw)
        /\ probe.windows = NormalStatus(probe.raw)

\* A segment that is a number: digits, with or without a sign.
IsNumeral(s) ==
    LET u == IF s # <<>> /\ Head(s) \in {"-", "+"} THEN Tail(s) ELSE s
    IN u # <<>> /\ CountDigits(u) = Len(u)

SegmentValue(s) == IF IsNumeral(s) THEN ParseInt(s) ELSE 0

\* The seconds the rule of C24 gives a time string.
SecondsOf(text) ==
    LET parts == Split(text, Colon)
    IN IF Len(parts) = 2 THEN 60 * SegmentValue(parts[1]) + SegmentValue(parts[2])
       ELSE 0

\* C24: on both backends MM:SS yields 60*MM + SS, a segment that is not a
\* number counting as 0, and any other string yields 0.
C24_TimeStringParsed ==
    probe.op = "parseTime" =>
        /\ probe.linux = SecondsOf(probe.text)
        /\ probe.windows = SecondsOf(probe.text)

\* C25: of the delimited output, fewer than 8 fields yield null, and 8 fields
\* (with exit code 0) yield a record that takes title, art locator, artist,
\* album, position, duration, status and player name from the fields in that
\* order.
C25_EightFieldsInOrder ==
    (Sampled /\ backend = "linux" /\ probe.event = "close") =>
        /\ Len(probe.fields) < 8 => probe.value = None
        /\ (Len(probe.fields) = 8 /\ probe.code = 0) =>
              /\ probe.value # None
              /\ probe.value.title = Or(JsStr(probe.fields[1]), JsStr(UnknownTitle))
              /\ probe.value.artUrl = JsStr(probe.fields[2])
              /\ probe.value.artist = Or(JsStr(probe.fields[3]), JsStr(UnknownArtist))
              /\ probe.value.album = Or(JsStr(probe.fields[4]), JsStr(UnknownAlbum))
              /\ probe.value.position = ParseDuration(probe.fields[5])
              /\ probe.value.duration = ParseDuration(probe.fields[6])
              /\ probe.value.status = LinuxStatus(JsStr(probe.fields[7]))
              /\ probe.value.player = Or(JsStr(probe.fields[8]), JsStr(UnknownPlayer))

\* C25's case: playerctl exited with 0 and printed eight fields, the first
\* of them "t", and the record's title is "t".
C25_Witness ==
    /\ Sampled /\ backend = "linux" /\ probe.event = "close" /\ probe.code = 0
    /\ Len(probe.fields) = 8
    /\ probe.value # None
    /\ probe.value.title = JsStr(<<"t">>)
    /\ probe.value.player = JsStr(<<"p">>)

(***************************************************************************)
(* Claims about getArtworkUri (ArtSpec)                                    *)
(***************************************************************************)
\* C27: getArtworkUri of the controller always completes and never rejects:
\* no call is left that no event can settle, a failed resolution returns
\* nothing (the empty string), and a path is returned only for a file that a
\* copy or a download has completed.
C27_GetArtworkUriAlwaysCompletes ==
    resolver = "controller" =>
        /\ \A i \in ResolveSlots : resolves[i].pc # "hung"
        /\ Returned =>
              /\ lastResolve.result.form # "rejected"
              /\ lastResolve.how \in {"empty", "nosource", "copyfailed", "unsupported",
                                      "status", "error"} => lastResolve.result = NoPath
              /\ lastResolve.result # NoPath => lastResolve.fileState = "complete"

(***************************************************************************)
(* Claims about the ticks and their downloads (Spec)                       *)
(***************************************************************************)
\* The frames of the ticks in flight and of the tick that ended last.
Frames == {ticks[i] : i \in Slots} \cup {last}

\* C28: the local path chosen for a locator depends on the locator alone: any
\* two downloads of the same locator target the same path.
C28_PathIsFunctionOfLocator ==
    \A f \in Frames, g \in Frames :
        (f.target # Null /\ g.target # Null /\ Orig(f) = Orig(g)) =>
            f.target = g.target

\* The tick in slot i awaits a download.
Pending(i) == ticks[i].pc \in {"downloading", "hung"}

C30_LastKnownSetAfterResolution ==
    \A i \in Slots :
        Pending(i) => ~(currentRef = i /\ currentTrack = ticks[i].track)

\* C31: a resolve of a file:// locator copies the source only if no file is
\* at the target path yet: a copy a tick makes is the first copy to that
\* path, so that no resolve overwrites a file that is already there.
C31_CopyOnlyIfTargetAbsent ==
    (Ended /\ last.how = "copied") => transfers[Orig(last)] = 1

\* C33: notifications are never stale: whenever no tick is in flight, the
\* record the subscriber was given last is the record lastKnown holds (or
\* both are null).
C33_LastDeliveredIsLastKnown ==
    (InFlight = {} /\ Ended /\ Len(last.calls) > 0) =>
        last.calls[Len(last.calls)].track = currentTrack

\* C34: after dispose() the subscriber is never called again and no entry is
\* added to the artwork cache, not even by a tick or a download that was in
\* flight when dispose() was called (here, of a service whose availability
\* check had completed and whose timer dispose() has cleared).
C34_NothingAfterDispose ==
    [][(disposed /\ initPc = "done" /\ activeTimers = {}) =>
          /\ \A l \in Locators : artworkCache'[l] = Null
          /\ last' # last => Len(last'.calls) = 0]_vars

\* C35: a tick whose sample is a record never calls the subscriber with null
\* and never resets lastKnown to null, whatever the outcome of the artwork
\* resolution and of the subscriber's own call.
C35_NullOnlyForNullSample ==
    (Ended /\ last.sample # None) =>
        \A k \in 1..Len(last.calls) : last.calls[k].track # None

(***************************************************************************)
(* Further claims about the controls and the resolvers                     *)
(***************************************************************************)
\* C37 (CmdSpec): every control called on an available service settles,
\* whatever the helper does: no call is left whose promise no event can
\* settle.
C37_EveryControlSettles ==
    \A i \in CommandSlots : cmds[i].op \in Controls => cmds[i].pc # "hung"

\* C38 (ArtSpec): two different locators that have both been resolved never
\* share a local file.
C38_DistinctLocatorsDistinctFiles ==
    \A u \in ArtUrls, v \in ArtUrls :
        (u # v /\ resolverCache[u] # NoPath /\ resolverCache[v] # NoPath) =>
            resolverCache[u].file # resolverCache[v].file

\* The helper outcomes of a control that are failures, and those that are
\* not: the latter are exit code 0, the call on an unavailable service, and
\* the non-zero exit whose standard error says the player does not support
\* the control.
NotSupported(f) ==
    f.exit.kind = "close" /\ f.exit.code # 0 /\ IncludesNotAvailable(f.exit.stderr)
Succeeded(f) ==
    \/ ~f.avail
    \/ f.exit.kind = "close" /\ f.exit.code = 0
    \/ NotSupported(f)

\* C32 (CmdSpec): of a control that has come back to the provider, a failure
\* is shown as an error and schedules no refresh, and a success, the call on
\* an unavailable service and the control the player does not support
\* included, shows no error and schedules exactly one refresh (here, through
\* WindowsMusicController, which passes the call on to its service).
C32_ErrorShownOrOneRefresh ==
    (Settled1 /\ cmdResult.op \in Controls /\ backend = "windows") =>
        IF Succeeded(cmdResult)
        THEN cmdResult.shown = "none" /\ cmdResult.refreshes = 1
        ELSE cmdResult.shown = "error" /\ cmdResult.refreshes = 0

\* In terms of the control's promise alone the handler does both: an error
\* and no refresh for a rejection, one refresh and no error otherwise.
ProviderFollowsPromise ==
    (Settled1 /\ cmdResult.op \in Controls) =>
        IF cmdResult.settled = "rejected"
        THEN cmdResult.shown = "error" /\ cmdResult.refreshes = 0
        ELSE cmdResult.shown = "none" /\ cmdResult.refreshes = 1

(***************************************************************************)
(* RunSpec: a player that plays on, sampled once a tick                    *)
(***************************************************************************)
\* The sample at second q of the run: title, artist and status stay, the
\* position is q. The artwork is none or a local file, so that no tick
\* suspends in a download.
RunSample(q, artUrl) == Track("A", artUrl, "X", "Al", q, 200, "playing", "P")

\* No call of the subscriber yet.
NoCall == [kind |-> "nocall"]

\* The run as `probe` records it: the position of the next sample, the record
\* of the subscriber's last call and that of the call before it.
Run ==
    IF probe.op = "run" THEN probe
    ELSE [op |-> "run", next |-> 0, notified |-> NoCall, before |-> NoCall]

\* The calls a tick made, appended to the two calls remembered.
AfterCalls(r, calls) ==
    IF Len(calls) = 0 THEN r
    ELSE IF Len(calls) = 1
    THEN [r EXCEPT !.before = r.notified, !.notified = calls[1].track]
    ELSE [r EXCEPT !.before = calls[Len(calls) - 1].track,
                   !.notified = calls[Len(calls)].track]

\* The helper of the tick in slot i closes and getCurrentTrack resolves to the
\* next sample of the run; the tick runs to its end.
RunSampleDoneOf(i) ==
    /\ ticks[i].pc = "sampling"
    /\ Run.next <= MaxRun
    /\ \E artUrl \in {EmptyStr, LocFile} : ProcessSample(i, RunSample(Run.next, artUrl))
    /\ probe' = AfterCalls([Run EXCEPT !.next = Run.next + 1], last'.calls)
    /\ UNCHANGED <<backend, initPc, isAvailable, updateInterval, activeTimers,
                   nextTimer, callbackSet, disposed>>
    /\ UNCHANGED <<checkOutcome, artVars, cmdVars, controllerDisposed>>

RunSampleDone == \E i \in Slots : RunSampleDoneOf(i)

RunNext ==
    \/ CheckAvailabilityDone
    \/ OnTrackChanged
    \/ TimerFire
    \/ RunSampleDone

RunSpec == Init /\ [][RunNext]_vars

Initializes ==
    IF probe.op = "initialize" THEN probe
    ELSE [op |-> "initialize", calls |-> 0, pending |-> 0, done |-> 0,
          overlapped |-> FALSE]

\* startPolling does not clear the timer it replaces.
ClearedTimers_Keeps(active, interval) == active

\* if (this.updateInterval) { clearInterval(this.updateInterval); }
ClearedTimers(active, interval) ==
    IF interval # 0 THEN active \ {interval} ELSE active

\* initialize() is called and runs to its await: the availability check is
\* started.
InitializeCall ==
    /\ Initializes.calls < MaxInitialize
    /\ probe' = [Initializes EXCEPT
                    !.calls = @ + 1, !.pending = @ + 1,
                    !.overlapped = @ \/ Initializes.pending > 0 \/ initPc = "checking"]
    /\ UNCHANGED <<backend, initPc, isAvailable, updateInterval, activeTimers,
                   nextTimer, currentTrack, currentRef, artworkCache, callbackSet,
                   ticks, last, now, transfers, returned, disposed>>
    /\ UNCHANGED <<checkOutcome, artVars, cmdVars, controllerDisposed>>

\* The availability check of a later initialize() completes: the flag is set
\* anew and startPolling runs.
InitializeCheckDone ==
    /\ Initializes.pending > 0
    /\ \E outcome \in CheckOutcomes(backend) :
          /\ isAvailable' = FlagAfterCheck(outcome)
          /\ checkOutcome' = [outcome |-> outcome, spawned |-> CheckSpawns(outcome)]
    /\ activeTimers' = ClearedTimers(activeTimers, updateInterval) \cup {nextTimer}
    /\ updateInterval' = nextTimer
    /\ nextTimer' = nextTimer + 1
    /\ probe' = [Initializes EXCEPT !.pending = @ - 1, !.done = @ + 1]
    /\ UNCHANGED <<backend, initPc, currentTrack, currentRef, artworkCache,
                   callbackSet, ticks, last, now, transfers, returned, disposed>>
    /\ UNCHANGED <<artVars, cmdVars, controllerDisposed>>

InitNext ==
    \/ CheckAvailabilityDone
    \/ InitializeCall
    \/ InitializeCheckDone
    \/ OnTrackChanged
    \/ Dispose

InitSpec == Init /\ [][InitNext]_vars

\* C39 (InitSpec): at every moment at most one polling timer is active, and
\* it is the one updateInterval refers to, however the availability checks of
\* construction and of later initialize() calls and dispose() interleave.
C39_AtMostOneTimer ==
    /\ Cardinality(activeTimers) <= 1
    /\ activeTimers \subseteq {updateInterval}

\* initialize() was called while another check was pending, polling has been
\* started three times or more, and one timer is active.
C39_Witness ==
    /\ probe.op = "initialize" /\ probe.overlapped
    /\ initPc = "done" /\ probe.done >= 2
    /\ Cardinality(activeTimers) = 1

====
